---- MODULE Spec2Model ----
(***************************************************************************)
(* Model of the SRT/transcript cleaner (src/app.py, src/old.py).           *)
(*                                                                         *)
(* A text is a sequence of one-character strings, so that every regular    *)
(* expression and string method of the source is modelled by what it does  *)
(* to the characters.  Three characters outside ASCII are written with     *)
(* ASCII stand-ins that occur nowhere else in the inputs:                   *)
(*     "~" is U+2026 (the horizontal ellipsis of the placeholder),         *)
(*     "@" is U+2022 (bullet),  "^" is U+00B7 (middle dot).                *)
(***************************************************************************)
EXTENDS Integers, Sequences, FiniteSets, TLC

VARIABLES
    pc,                      \* position of the running conversion
    srt_text,                \* the text handed to clean_srt_and_structure
    sentences_per_paragraph, \* configuration (app.py)
    detect_headings,         \* configuration (app.py)
    markdown_headings,       \* configuration (app.py)
    merged_text,             \* app.py: cleaned lines kept by the line filter
    joined_text,             \* app.py: merged_text joined with single spaces
    all_sentences,           \* app.py: sentences of joined_text
    si,                      \* app.py: number of sentences of all_sentences consumed
    current_heading,         \* app.py: heading of the open section
    sentence_buffer,         \* app.py: sentences buffered for the open section
    out_blocks,              \* app.py: emitted lines
    final_text,              \* app.py: returned text
    appended,                \* history: every sentence put in sentence_buffer, in order
    pass,                    \* 1: first conversion, 2: conversion of the first output
    first_text,              \* the output of the first conversion
    fp_sentences,            \* flush_paragraphs alone: its sentences argument
    fp_n,                    \* flush_paragraphs alone: its sentences_per_paragraph argument
    fp_result,               \* flush_paragraphs alone: its result
    raw_lines,               \* old.py: srt_text.splitlines()
    li,                      \* old.py: number of raw lines consumed
    line,                    \* old.py: the loop variable (stripped line)
    cleaned_lines,           \* old.py: (tag, content) pairs of the classifier
    mi,                      \* old.py: number of cleaned_lines merged
    buffer,                  \* old.py: pending text of the merge loop
    merged                   \* old.py: returned (tag, content) pairs

vars == <<pc, srt_text, sentences_per_paragraph, detect_headings, markdown_headings,
          merged_text, joined_text, all_sentences, si, current_heading,
          sentence_buffer, out_blocks, final_text, appended, pass, first_text,
          fp_sentences, fp_n, fp_result,
          raw_lines, li, line, cleaned_lines, mi, buffer, merged>>

-----------------------------------------------------------------------------
(* Characters and the string methods the source uses.                      *)

Chars(s) == [i \in 1..Len(s) |-> SubSeq(s, i, i)]

LowerCase == Chars("abcdefghijklmnopqrstuvwxyz")

UpperCase == Chars("ABCDEFGHIJKLMNOPQRSTUVWXYZ")

Digits == {"0", "1", "2", "3", "4", "5", "6", "7", "8", "9"}

Letters == {LowerCase[i] : i \in 1..26} \cup {UpperCase[i] : i \in 1..26}

\* \s of the re module
IsSpace(c) == c \in {" ", "\t", "\n", "\r", "\f"}

\* \d of the re module
IsDigit(c) == c \in Digits

\* \w of the re module
IsWordChar(c) == c \in Letters \cup Digits \cup {"_"}

\* str.upper / str.lower on one character
UpperChar(c) ==
    IF \E i \in 1..26 : LowerCase[i] = c
    THEN UpperCase[CHOOSE i \in 1..26 : LowerCase[i] = c]
    ELSE c

LowerChar(c) ==
    IF \E i \in 1..26 : UpperCase[i] = c
    THEN LowerCase[CHOOSE i \in 1..26 : UpperCase[i] = c]
    ELSE c

Upper(s) == [i \in 1..Len(s) |-> UpperChar(s[i])]

Lower(s) == [i \in 1..Len(s) |-> LowerChar(s[i])]

\* s[from..] (1-based), empty when from is past the end
From(s, from) == SubSeq(s, from, Len(s))

\* the first index k in i..n with test[k], n+1 if none
FirstAt(test, i, n) ==
    IF i > n THEN i
    ELSE CHOOSE k \in i..(n + 1) :
             /\ k = n + 1 \/ test[k]
             /\ \A j \in i..(k - 1) : ~test[j]

\* the last index k in 1..i with test[k], 0 if none
LastAt(test, i) ==
    IF i < 1 THEN i
    ELSE CHOOSE k \in 0..i :
             /\ k = 0 \/ test[k]
             /\ \A j \in (k + 1)..i : ~test[j]

\* where s holds whitespace
SpaceAt(s) == [k \in 1..Len(s) |-> IsSpace(s[k])]

\* where s holds no whitespace
NoSpaceAt(s) == [k \in 1..Len(s) |-> ~IsSpace(s[k])]

\* where s holds no digit
NoDigitAt(s) == [k \in 1..Len(s) |-> ~IsDigit(s[k])]

\* the first index >= i of s that holds no whitespace, Len(s)+1 if none
SkipSpaces(s, i) == FirstAt(NoSpaceAt(s), i, Len(s))

\* the last index <= i of s that holds no whitespace, 0 if none
SkipSpacesBack(s, i) == LastAt(NoSpaceAt(s), i)

\* str.strip()
Strip(s) == SubSeq(s, SkipSpaces(s, 1), SkipSpacesBack(s, Len(s)))

\* re.sub(r'\s+', ' ', s): each whitespace run becomes one space
RECURSIVE CollapseSpaces(_)
CollapseSpaces(s) ==
    LET w == FirstAt(SpaceAt(s), 1, Len(s))
    IN  IF w > Len(s) THEN s
        ELSE SubSeq(s, 1, w - 1) \o <<" ">>
                 \o CollapseSpaces(From(s, SkipSpaces(s, w)))

\* s.startswith(p) at index i
StartsAt(s, i, p) ==
    /\ i >= 1
    /\ i + Len(p) - 1 <= Len(s)
    /\ SubSeq(s, i, i + Len(p) - 1) = p

\* str.replace(old, new): every non-overlapping occurrence, left to right
RECURSIVE Replace(_, _, _)
Replace(s, old, new) ==
    LET k == FirstAt([i \in 1..Len(s) |-> StartsAt(s, i, old)], 1, Len(s))
    IN  IF k > Len(s) THEN s
        ELSE SubSeq(s, 1, k - 1) \o new
                 \o Replace(From(s, k + Len(old)), old, new)

\* sep.join(parts)
RECURSIVE Join(_, _)
Join(parts, sep) ==
    IF parts = <<>> THEN <<>>
    ELSE IF Len(parts) = 1 THEN parts[1]
         ELSE parts[1] \o sep \o Join(Tail(parts), sep)

\* the first index >= i of s holding c, 0 if none
Find(s, c, i) ==
    LET k == FirstAt([j \in 1..Len(s) |-> s[j] = c], i, Len(s))
    IN  IF k > Len(s) THEN 0 ELSE k

\* str.split(): the maximal runs of non-whitespace
RECURSIVE SplitWords(_)
SplitWords(s) ==
    LET b == SkipSpaces(s, 1)
    IN  IF b > Len(s) THEN <<>>
        ELSE LET e == FirstAt(SpaceAt(s), b, Len(s))
             IN  <<SubSeq(s, b, e - 1)>> \o SplitWords(From(s, e))

\* where s holds a line boundary
LineBreakAt(s) == [k \in 1..Len(s) |-> s[k] \in {"\n", "\r", "\f"}]

\* str.splitlines(): "\n", "\r", "\r\n" and "\f" end a line; no empty last line
RECURSIVE SplitLinesFrom(_, _)
SplitLinesFrom(s, start) ==
    IF start > Len(s) THEN <<>>
    ELSE LET i == FirstAt(LineBreakAt(s), start, Len(s))
         IN  IF i > Len(s) THEN <<SubSeq(s, start, Len(s))>>
             ELSE IF s[i] = "\r" /\ i < Len(s) /\ s[i + 1] = "\n"
                  THEN <<SubSeq(s, start, i - 1)>> \o SplitLinesFrom(s, i + 2)
                  ELSE <<SubSeq(s, start, i - 1)>> \o SplitLinesFrom(s, i + 1)

SplitLines(s) == SplitLinesFrom(s, 1)

-----------------------------------------------------------------------------
(* src/app.py: split_into_sentences                                         *)

Terminators == {".", "!", "?"}

Ellipsis == Chars("...")

\* "…ELLIPSIS…"
Placeholder == Chars("~ELLIPSIS~")

\* " …ELLIPSIS… ": the placeholder as line 14 inserts it, a space on each side
PaddedPlaceholder == <<" ">> \o Placeholder \o <<" ">>

\* where (?<=[.!?])\s+ matches in s
BoundaryAt(s) ==
    [k \in 1..Len(s) |-> IsSpace(s[k]) /\ k > 1 /\ s[k - 1] \in Terminators]

\* re.split(r'(?<=[.!?])\s+', s): cut at each whitespace run that follows a
\* terminator; the run is discarded, the terminator stays with the piece before
RECURSIVE SplitAfterTerminator(_, _)
SplitAfterTerminator(s, start) ==
    LET i == FirstAt(BoundaryAt(s), start, Len(s))
    IN  IF i > Len(s) THEN <<SubSeq(s, start, Len(s))>>
        ELSE <<SubSeq(s, start, i - 1)>>
                 \o SplitAfterTerminator(s, SkipSpaces(s, i))

\* lines 16-20: restore the ellipsis in each part, strip it, keep the non-empty
RECURSIVE RestoreParts(_)
RestoreParts(parts) ==
    IF parts = <<>> THEN <<>>
    ELSE LET p == Strip(Replace(parts[1], Placeholder, Ellipsis))
         IN  (IF p # <<>> THEN <<p>> ELSE <<>>) \o RestoreParts(Tail(parts))

split_into_sentences(text) ==
    LET t == Strip(CollapseSpaces(text))
    IN  IF t = <<>> THEN <<>>
        ELSE RestoreParts(
                 SplitAfterTerminator(Replace(t, Ellipsis, PaddedPlaceholder), 1))

-----------------------------------------------------------------------------
(* src/app.py: flush_paragraphs                                             *)

\* " ".join(buffer).strip(), appended when non-empty (lines 31-33, 38-40)
AddParagraph(paragraphs, buf) ==
    LET para == Strip(Join(buf, <<" ">>))
    IN  IF para # <<>> THEN Append(paragraphs, para) ELSE paragraphs

\* the loop of lines 28-34 from sentence i on, then the leftover of lines 37-40
RECURSIVE FlushLoop(_, _, _, _, _)
FlushLoop(sentences, n, i, buf, paragraphs) ==
    IF i > Len(sentences)
    THEN IF buf # <<>> THEN AddParagraph(paragraphs, buf) ELSE paragraphs
    ELSE LET b == Append(buf, sentences[i])
         IN  IF i % n = 0
             THEN FlushLoop(sentences, n, i + 1, <<>>, AddParagraph(paragraphs, b))
             ELSE FlushLoop(sentences, n, i + 1, b, paragraphs)

\* flush_paragraphs with enumerate counting from 0 instead of 1
RECURSIVE ZeroBasedLoop(_, _, _, _, _)
ZeroBasedLoop(sentences, n, i, buf, paragraphs) ==
    IF i > Len(sentences)
    THEN IF buf # <<>> THEN AddParagraph(paragraphs, buf) ELSE paragraphs
    ELSE LET b == Append(buf, sentences[i])
         IN  IF (i - 1) % n = 0
             THEN ZeroBasedLoop(sentences, n, i + 1, <<>>, AddParagraph(paragraphs, b))
             ELSE ZeroBasedLoop(sentences, n, i + 1, b, paragraphs)

flush_paragraphs_zero_based(sentences, n) ==
    ZeroBasedLoop(sentences, n, 1, <<>>, <<>>)

flush_paragraphs(sentences, n) == FlushLoop(sentences, n, 1, <<>>, <<>>)

-----------------------------------------------------------------------------
(* src/app.py: clean_srt_and_structure, the line filter (lines 52-69)       *)

\* the first index >= i of s that holds no digit, Len(s)+1 if none
SkipDigits(s, i) == FirstAt(NoDigitAt(s), i, Len(s))

\* \d{2}:\d{2}:\d{2},\d{3} at index i
TimeAt(s, i) ==
    /\ i >= 1
    /\ i + 11 <= Len(s)
    /\ \A k \in {0, 1, 3, 4, 6, 7, 9, 10, 11} : IsDigit(s[i + k])
    /\ s[i + 2] = ":"
    /\ s[i + 5] = ":"
    /\ s[i + 8] = ","

\* ts_pattern matches at index i:
\* \b\d{2}:\d{2}:\d{2},\d{3}\s*-->\s*\d{2}:\d{2}:\d{2},\d{3}\b
TsMatchAt(s, i) ==
    /\ TimeAt(s, i)
    /\ (i = 1 \/ ~IsWordChar(s[i - 1]))
    /\ LET a == SkipSpaces(s, i + 12)
       IN  /\ StartsAt(s, a, Chars("-->"))
           /\ LET b == SkipSpaces(s, a + 3)
              IN  /\ TimeAt(s, b)
                  /\ (b + 12 > Len(s) \/ ~IsWordChar(s[b + 12]))

\* ts_pattern anchored at the start of the line, as old.py anchors its own
ts_pattern_anchored(s) == TsMatchAt(s, 1)

\* ts_pattern.search(line)
ts_pattern(s) == \E i \in 1..Len(s) : TsMatchAt(s, i)

\* index_line.match(line): ^\s*\d+\s*$
index_line(s) ==
    LET a == SkipSpaces(s, 1)
        d == SkipDigits(s, a)
    IN  d > a /\ SkipSpaces(s, d) > Len(s)

\* the loop of lines 59-66
RECURSIVE FilterLines(_)
FilterLines(lines) ==
    IF lines = <<>> THEN <<>>
    ELSE IF index_line(lines[1]) THEN FilterLines(Tail(lines))
         ELSE IF ts_pattern(lines[1]) THEN FilterLines(Tail(lines))
              ELSE LET cleaned == Strip(CollapseSpaces(lines[1]))
                   IN  (IF cleaned # <<>> THEN <<cleaned>> ELSE <<>>)
                           \o FilterLines(Tail(lines))

-----------------------------------------------------------------------------
(* src/app.py: clean_srt_and_structure, sections (lines 74-111)             *)

\* "=" * n
Underline(n) == [i \in 1..n |-> "="]

\* HeadingBlocks with an underline one character longer than the heading
HeadingBlocksLongUnderline(heading, md) ==
    IF heading = <<>> THEN <<>>
    ELSE IF md
         THEN <<Chars("## ") \o Strip(heading)>>
         ELSE <<Upper(Strip(heading)), Underline(Len(Strip(heading)) + 1)>>

\* lines 83-88: the heading line(s) of a flushed section
HeadingBlocks(heading, md) ==
    IF heading = <<>> THEN <<>>
    ELSE IF md
         THEN <<Chars("## ") \o Strip(heading)>>
         ELSE <<Upper(Strip(heading)), Underline(Len(Strip(heading)))>>

\* lines 89-92: each paragraph and two blank lines
RECURSIVE ParagraphBlocks(_)
ParagraphBlocks(paragraphs) ==
    IF paragraphs = <<>> THEN <<>>
    ELSE <<paragraphs[1], <<>>, <<>>>> \o ParagraphBlocks(Tail(paragraphs))

\* push_section without the reset of line 93
push_section_no_reset(out, heading, buf, n, md) ==
    IF buf = <<>>
    THEN [out_blocks |-> out, sentence_buffer |-> buf]
    ELSE [out_blocks |-> out \o HeadingBlocks(heading, md)
                            \o ParagraphBlocks(flush_paragraphs(buf, n)),
          sentence_buffer |-> buf]

\* push_section (lines 78-93): the new out_blocks and sentence_buffer
push_section(out, heading, buf, n, md) ==
    IF buf = <<>>
    THEN [out_blocks |-> out, sentence_buffer |-> buf]
    ELSE [out_blocks |-> out \o HeadingBlocks(heading, md)
                            \o ParagraphBlocks(flush_paragraphs(buf, n)),
          sentence_buffer |-> <<>>]

\* the test of line 99 with "and" in the place of "or"
IsHeadingPrefixBoth(head) ==
    Len(Strip(head)) >= 8 /\ Len(SplitWords(Strip(head))) >= 2

\* line 99: the test on the text before the first ":"
IsHeadingPrefix(head) ==
    Len(Strip(head)) >= 8 \/ Len(SplitWords(Strip(head))) >= 2

\* lines 97-99: the sentence opens a new section
OpensSection(detect, sentence) ==
    /\ detect
    /\ Find(sentence, ":", 1) # 0
    /\ IsHeadingPrefix(SubSeq(sentence, 1, Find(sentence, ":", 1) - 1))

\* line 110
FinalText(out) == Strip(Join(out, <<"\n">>)) \o <<"\n">>

-----------------------------------------------------------------------------
(* The conversion of app.py as a state machine.                             *)

\* lines 52-66
FilterStep ==
    /\ pc = "start"
    /\ merged_text' = FilterLines(SplitLines(srt_text))
    /\ pc' = "filtered"
    /\ UNCHANGED <<srt_text, sentences_per_paragraph, detect_headings,
                   markdown_headings, joined_text, all_sentences, si,
                   current_heading, sentence_buffer, out_blocks, final_text,
                   appended, pass, first_text, fp_sentences, fp_n, fp_result,
                   raw_lines, li, line, cleaned_lines, mi, buffer, merged>>

\* lines 69-76
SegmentStep ==
    /\ pc = "filtered"
    /\ joined_text' = Join(merged_text, <<" ">>)
    /\ all_sentences' = split_into_sentences(joined_text')
    /\ si' = 0
    /\ out_blocks' = <<>>
    /\ current_heading' = <<>>
    /\ sentence_buffer' = <<>>
    /\ pc' = "loop"
    /\ UNCHANGED <<srt_text, sentences_per_paragraph, detect_headings,
                   markdown_headings, merged_text, final_text,
                   appended, pass, first_text, fp_sentences, fp_n, fp_result,
                   raw_lines, li, line, cleaned_lines, mi, buffer, merged>>

\* one iteration of the loop of lines 96-106
ProcessSentence ==
    /\ pc = "loop"
    /\ si < Len(all_sentences)
    /\ LET sentence == all_sentences[si + 1]
           colon == Find(sentence, ":", 1)
       IN  IF OpensSection(detect_headings, sentence)
           THEN LET pushed == push_section(out_blocks, current_heading,
                                           sentence_buffer,
                                           sentences_per_paragraph,
                                           markdown_headings)
                    remainder == Strip(From(sentence, colon + 1))
                    more == IF remainder # <<>>
                            THEN split_into_sentences(remainder)
                            ELSE <<>>
                IN  /\ out_blocks' = pushed.out_blocks
                    /\ current_heading' = Strip(SubSeq(sentence, 1, colon - 1))
                    /\ sentence_buffer' = pushed.sentence_buffer \o more
                    /\ appended' = appended \o more
           ELSE /\ sentence_buffer' = Append(sentence_buffer, sentence)
                /\ appended' = Append(appended, sentence)
                /\ UNCHANGED <<out_blocks, current_heading>>
    /\ si' = si + 1
    /\ UNCHANGED <<pc, srt_text, sentences_per_paragraph, detect_headings,
                   markdown_headings, merged_text, joined_text, all_sentences,
                   final_text, pass, first_text, fp_sentences, fp_n, fp_result,
                   raw_lines, li, line, cleaned_lines, mi, buffer, merged>>

\* lines 108-111
Finish ==
    /\ pc = "loop"
    /\ si = Len(all_sentences)
    /\ LET pushed == push_section(out_blocks, current_heading, sentence_buffer,
                                  sentences_per_paragraph, markdown_headings)
       IN  /\ out_blocks' = pushed.out_blocks
           /\ sentence_buffer' = pushed.sentence_buffer
           /\ final_text' = FinalText(pushed.out_blocks)
    /\ pc' = "done"
    /\ UNCHANGED <<srt_text, sentences_per_paragraph, detect_headings,
                   markdown_headings, merged_text, joined_text, all_sentences,
                   si, current_heading, appended, pass, first_text,
                   fp_sentences, fp_n, fp_result,
                   raw_lines, li, line, cleaned_lines, mi, buffer, merged>>

\* lines 165-176: the result is shown in a text area; the user pastes it back
\* and converts it again under the same options
Reconvert ==
    /\ pc = "done"
    /\ pass = 1
    /\ pass' = 2
    /\ first_text' = final_text
    /\ srt_text' = final_text
    /\ pc' = "start"
    /\ merged_text' = <<>>
    /\ joined_text' = <<>>
    /\ all_sentences' = <<>>
    /\ si' = 0
    /\ current_heading' = <<>>
    /\ sentence_buffer' = <<>>
    /\ out_blocks' = <<>>
    /\ final_text' = <<>>
    /\ appended' = <<>>
    /\ UNCHANGED <<sentences_per_paragraph, detect_headings, markdown_headings,
                   fp_sentences, fp_n, fp_result,
                   raw_lines, li, line, cleaned_lines, mi, buffer, merged>>

-----------------------------------------------------------------------------
(* Inputs of the conversion.                                                *)

\* the longest input, in pieces
MaxPieces == 3

\* the largest sentences_per_paragraph
MaxPerParagraph == 2

Timecode == Chars("00:00:00,600 --> 00:00:05,569")

Pieces ==
    { Chars("ok. "), Chars("Big topic: "), Chars("Overview: "), Chars("ok: "),
      Chars("so... "), Chars("7\n"), Timecode \o <<"\n">> }

\* the input of the end-to-end scenario
ModuleSample ==
    Chars("1\n") \o Timecode
        \o Chars("\nWelcome to Module 7: In this module we will cover X, Y, Z.")

Scenarios ==
    { ModuleSample,
      Chars("Wait... really? Yes."),
      Chars("Introduction to testing: we begin now."),
      Chars("ok: fine."),
      Chars("x") \o Timecode \o Chars("\nok."),
      Chars("ok. Big topic:") }

RECURSIVE Flatten(_)
Flatten(seqs) == IF seqs = <<>> THEN <<>> ELSE seqs[1] \o Flatten(Tail(seqs))

Inputs ==
    {Flatten(p) : p \in UNION {[1..k -> Pieces] : k \in 0..MaxPieces}}
        \cup Scenarios

\* the variables of flush_paragraphs alone, when it does not run
FlushIdle ==
    /\ fp_sentences = <<>>
    /\ fp_n = 1
    /\ fp_result = <<>>

\* the variables of old.py, when it does not run
OldIdle ==
    /\ raw_lines = <<>>
    /\ li = 0
    /\ line = <<>>
    /\ cleaned_lines = <<>>
    /\ mi = 0
    /\ buffer = <<>>
    /\ merged = <<>>

\* the variables of app.py's conversion, when it does not run
AppIdle ==
    /\ sentences_per_paragraph = 1
    /\ detect_headings = FALSE
    /\ markdown_headings = FALSE
    /\ merged_text = <<>>
    /\ joined_text = <<>>
    /\ all_sentences = <<>>
    /\ si = 0
    /\ current_heading = <<>>
    /\ sentence_buffer = <<>>
    /\ out_blocks = <<>>
    /\ final_text = <<>>
    /\ appended = <<>>
    /\ pass = 1
    /\ first_text = <<>>

Init ==
    /\ pc = "start"
    /\ srt_text \in Inputs
    /\ sentences_per_paragraph \in 1..MaxPerParagraph
    /\ detect_headings \in BOOLEAN
    /\ markdown_headings \in BOOLEAN
    /\ merged_text = <<>>
    /\ joined_text = <<>>
    /\ all_sentences = <<>>
    /\ si = 0
    /\ current_heading = <<>>
    /\ sentence_buffer = <<>>
    /\ out_blocks = <<>>
    /\ final_text = <<>>
    /\ appended = <<>>
    /\ pass = 1
    /\ first_text = <<>>
    /\ FlushIdle
    /\ OldIdle

Next == FilterStep \/ SegmentStep \/ ProcessSentence \/ Finish \/ Reconvert

Spec == Init /\ [][Next]_vars

-----------------------------------------------------------------------------
(* flush_paragraphs of app.py on its own: any sentences, any count.         *)

\* the longest list of sentences
MaxSentences == 7

\* the largest sentences_per_paragraph handed to flush_paragraphs alone
MaxGroup == 4

\* sentences as split_into_sentences yields them: stripped and non-empty
SentenceChoices == {Chars("a."), Chars("b c?")}

InitFlush ==
    /\ pc = "flush"
    /\ srt_text = <<>>
    /\ fp_sentences \in UNION {[1..k -> SentenceChoices] : k \in 0..MaxSentences}
    /\ fp_n \in 1..MaxGroup
    /\ fp_result = <<>>
    /\ AppIdle
    /\ OldIdle

\* a call of flush_paragraphs (line 82)
FlushCall ==
    /\ pc = "flush"
    /\ fp_result' = flush_paragraphs(fp_sentences, fp_n)
    /\ pc' = "flushed"
    /\ UNCHANGED <<srt_text, sentences_per_paragraph, detect_headings,
                   markdown_headings, merged_text, joined_text, all_sentences,
                   si, current_heading, sentence_buffer, out_blocks, final_text,
                   appended, pass, first_text, fp_sentences, fp_n,
                   raw_lines, li, line, cleaned_lines, mi, buffer, merged>>

NextFlush == FlushCall

SpecFlush == InitFlush /\ [][NextFlush]_vars

-----------------------------------------------------------------------------
(* src/old.py: clean_srt_and_structure, the flat classifier (lines 14-51)   *)

\* \d\d:\d\d:\d\d,\d+ at index i: the index after it, 0 when it does not match
OldTimeEnd(s, i) ==
    IF /\ i >= 1
       /\ i + 9 <= Len(s)
       /\ \A k \in {0, 1, 3, 4, 6, 7, 9} : IsDigit(s[i + k])
       /\ s[i + 2] = ":"
       /\ s[i + 5] = ":"
       /\ s[i + 8] = ","
    THEN SkipDigits(s, i + 9)
    ELSE 0

\* old.py's ts_pattern.match(line): ^\d\d:\d\d:\d\d,\d+ --> \d\d:\d\d:\d\d,\d+
old_ts_pattern(s) ==
    LET e == OldTimeEnd(s, 1)
    IN  /\ e # 0
        /\ StartsAt(s, e, Chars(" --> "))
        /\ OldTimeEnd(s, e + 5) # 0

\* the index after the groups (\.\d+)* that start at index i
RECURSIVE SkipGroups(_, _)
SkipGroups(s, i) ==
    IF i < Len(s) /\ s[i] = "." /\ IsDigit(s[i + 1])
    THEN SkipGroups(s, SkipDigits(s, i + 1))
    ELSE i

\* the pattern of line 25 with (\.\d+)+ in the place of (\.\d+)*
IsNumberedDotted(s) ==
    LET d == SkipDigits(s, 1)
        g == SkipGroups(s, d)
    IN  /\ d > 1
        /\ g > d
        /\ \E k \in (g + 1)..Len(s) :
               /\ \A j \in g..(k - 1) : IsSpace(s[j])
               /\ s[k] # "\n"

\* line 25: re.match(r"^\d+(\.\d+)*\s+.+", line)
IsNumbered(s) ==
    LET d == SkipDigits(s, 1)
        g == SkipGroups(s, d)
    IN  /\ d > 1
        /\ \E k \in (g + 1)..Len(s) :
               /\ \A j \in g..(k - 1) : IsSpace(s[j])
               /\ s[k] # "\n"

\* line 27: line.endswith(":")
EndsWithColon(s) == s # <<>> /\ s[Len(s)] = ":"

\* line 28: any(char.isdigit() for char in line)
HasDigit(s) == \E i \in 1..Len(s) : IsDigit(s[i])

\* line 32: re.search(r"\bModule\s*\d+", line, re.IGNORECASE)
HasModule(s) ==
    \E i \in 1..Len(s) :
        /\ i = 1 \/ ~IsWordChar(s[i - 1])
        /\ StartsAt(Lower(s), i, Chars("module"))
        /\ LET j == SkipSpaces(s, i + 6)
           IN  j <= Len(s) /\ IsDigit(s[j])

\* line 43: line.startswith(("-", "*", "·"))
StartsWithBullet(s) == s # <<>> /\ s[1] \in {"-", "*", "^"}

\* where s holds none of the characters line.lstrip strips
NoBulletAt(s) == [k \in 1..Len(s) |-> s[k] \notin {"-", "*", "^", " "}]

\* lines 45, 47: line.lstrip("-*· ")
LStripBullets(s) == From(s, FirstAt(NoBulletAt(s), 1, Len(s)))

\* lines 34-40: the heading up to the first "." and the text after it
ModuleEntries(s) ==
    LET dot == Find(s, ".", 1)
    IN  IF dot # 0
        THEN LET rest == Strip(From(s, SkipSpaces(s, dot + 1)))
             IN  <<<<"main_heading", Strip(SubSeq(s, 1, dot))>>>>
                     \o (IF rest # <<>> THEN <<<<"text", rest>>>> ELSE <<>>)
        ELSE <<<<"main_heading", Strip(s)>>>>

\* lines 21-51 on a stripped line: the (tag, content) pairs it adds
Classify(s) ==
    IF s = <<>> \/ index_line(s) \/ old_ts_pattern(s) THEN <<>>
    ELSE IF IsNumbered(s) THEN <<<<"main_heading", s>>>>
    ELSE IF EndsWithColon(s)
         THEN IF HasDigit(s) THEN <<<<"main_heading", s>>>>
                             ELSE <<<<"sub_heading", s>>>>
    ELSE IF HasModule(s) THEN ModuleEntries(s)
    ELSE IF StartsWithBullet(s)
         THEN IF EndsWithColon(s)
              THEN <<<<"sub_heading", Strip(LStripBullets(s))>>>>
              ELSE <<<<"list", Strip(LStripBullets(s))>>>>
    ELSE <<<<"text", s>>>>

\* line 64: re.search(r"[.!?]$", content)
EndsSentence(s) == s # <<>> /\ s[Len(s)] \in Terminators

-----------------------------------------------------------------------------
(* The conversion of old.py as a state machine.                             *)

\* line 14
OldSplit ==
    /\ pc = "old_start"
    /\ raw_lines' = SplitLines(srt_text)
    /\ pc' = "classify"
    /\ UNCHANGED <<srt_text, sentences_per_paragraph, detect_headings,
                   markdown_headings, merged_text, joined_text, all_sentences,
                   si, current_heading, sentence_buffer, out_blocks, final_text,
                   appended, pass, first_text, fp_sentences, fp_n, fp_result,
                   li, line, cleaned_lines, mi, buffer, merged>>

\* one iteration of the loop of lines 19-51
ClassifyLine ==
    /\ pc = "classify"
    /\ li < Len(raw_lines)
    /\ line' = Strip(raw_lines[li + 1])
    /\ cleaned_lines' = cleaned_lines \o Classify(line')
    /\ li' = li + 1
    /\ UNCHANGED <<pc, srt_text, sentences_per_paragraph, detect_headings,
                   markdown_headings, merged_text, joined_text, all_sentences,
                   si, current_heading, sentence_buffer, out_blocks, final_text,
                   appended, pass, first_text, fp_sentences, fp_n, fp_result,
                   raw_lines, mi, buffer, merged>>

\* one iteration of the loop of lines 56-66
MergeEntry ==
    /\ pc = "classify"
    /\ li = Len(raw_lines)
    /\ mi < Len(cleaned_lines)
    /\ LET ttype == cleaned_lines[mi + 1][1]
           content == cleaned_lines[mi + 1][2]
       IN  IF ttype # "text"
           THEN /\ merged' = (IF buffer # <<>>
                              THEN Append(merged, <<"text", Strip(buffer)>>)
                              ELSE merged) \o <<<<ttype, content>>>>
                /\ buffer' = <<>>
           ELSE LET b == buffer \o <<" ">> \o content
                IN  IF EndsSentence(content)
                    THEN /\ merged' = Append(merged, <<"text", Strip(b)>>)
                         /\ buffer' = <<>>
                    ELSE /\ merged' = merged
                         /\ buffer' = b
    /\ mi' = mi + 1
    /\ UNCHANGED <<pc, srt_text, sentences_per_paragraph, detect_headings,
                   markdown_headings, merged_text, joined_text, all_sentences,
                   si, current_heading, sentence_buffer, out_blocks, final_text,
                   appended, pass, first_text, fp_sentences, fp_n, fp_result,
                   raw_lines, li, line, cleaned_lines>>

\* lines 67-70
MergeFinish ==
    /\ pc = "classify"
    /\ li = Len(raw_lines)
    /\ mi = Len(cleaned_lines)
    /\ merged' = (IF buffer # <<>>
                  THEN Append(merged, <<"text", Strip(buffer)>>)
                  ELSE merged)
    /\ pc' = "old_done"
    /\ UNCHANGED <<srt_text, sentences_per_paragraph, detect_headings,
                   markdown_headings, merged_text, joined_text, all_sentences,
                   si, current_heading, sentence_buffer, out_blocks, final_text,
                   appended, pass, first_text, fp_sentences, fp_n, fp_result,
                   raw_lines, li, line, cleaned_lines, mi, buffer>>

\* the longest line of the classifier's input, in tokens
MaxTokens == 3

Tokens ==
    { Chars("1"), Chars("1.2"), Chars(" a"), Chars(":"), Chars("-"),
      Chars("^"), Chars("@"), Chars("Module 3"), Chars(".") }

\* the lines before and after the line under test
LinesBefore == {<<>>, Chars("b.\n"), Chars("c:\n")}

LinesAfter == {<<>>, Chars("\nd")}

\* the sample of old.py (lines 148-161)
OldSample ==
    Chars("1\n00:00:00,600 --> 00:00:05,569\n")
    \o Chars("1.1.1 Definition, Importance of Prompt Engineering in Software Development:\n")
    \o Chars("At its core, prompt engineering is the practice of designing input queries for AI...\n")
    \o Chars("2\n00:00:05,819 --> 00:00:11,496\nMax Tokens:\n")
    \o Chars("^ Test Methods: Run automated tests\n^ Controls length: prevents overflow\n")
    \o Chars("^ Prevents overflow\n3\n00:00:12,000 --> 00:00:17,000\n")
    \o Chars("Welcome to Module 1: Introduction to Prompt Engineering for Developers.\n")

OldInputs ==
    {b \o Flatten(t) \o a :
        b \in LinesBefore, a \in LinesAfter,
        t \in UNION {[1..k -> Tokens] : k \in 0..MaxTokens}}
        \cup {OldSample}

InitOld ==
    /\ pc = "old_start"
    /\ srt_text \in OldInputs
    /\ raw_lines = <<>>
    /\ li = 0
    /\ line = <<>>
    /\ cleaned_lines = <<>>
    /\ mi = 0
    /\ buffer = <<>>
    /\ merged = <<>>
    /\ AppIdle
    /\ FlushIdle

NextOld == OldSplit \/ ClassifyLine \/ MergeEntry \/ MergeFinish

SpecOld == InitOld /\ [][NextOld]_vars

-----------------------------------------------------------------------------
(* The claims, stated without the operators of the code they are about.     *)

Min(a, b) == IF a <= b THEN a ELSE b

HasColon(s) == \E k \in 1..Len(s) : s[k] = ":"

FirstColon(s) ==
    CHOOSE k \in 1..Len(s) : s[k] = ":" /\ \A j \in 1..(k - 1) : s[j] # ":"

\* the trimmed text before the first ":"
ColonPrefix(s) == Strip(SubSeq(s, 1, FirstColon(s) - 1))

\* the trimmed text after the first ":"
ColonRemainder(s) == Strip(SubSeq(s, FirstColon(s) + 1, Len(s)))

\* the number of whitespace-separated words
WordCount(t) ==
    Cardinality({i \in 1..Len(t) : ~IsSpace(t[i]) /\ (i = 1 \/ IsSpace(t[i - 1]))})

\* the colon rule of the claims
ColonRule(s) ==
    /\ HasColon(s)
    /\ (Len(ColonPrefix(s)) >= 8 \/ WordCount(ColonPrefix(s)) >= 2)

\* seq ends with tail
EndsWith(seq, tail) ==
    /\ Len(tail) <= Len(seq)
    /\ SubSeq(seq, Len(seq) - Len(tail) + 1, Len(seq)) = tail

\* seq begins with head
BeginsWith(seq, head) ==
    /\ Len(head) <= Len(seq)
    /\ SubSeq(seq, 1, Len(head)) = head

\* a step of the loop over all_sentences
SentenceStep == pc = "loop" /\ pc' = "loop" /\ si' = si + 1

C1Step ==
    SentenceStep =>
        LET s == all_sentences[si + 1]
        IN  IF detect_headings /\ ColonRule(s)
            THEN /\ current_heading' = ColonPrefix(s)
                 /\ BeginsWith(out_blocks', out_blocks)
                 /\ EndsWith(out_blocks',
                             ParagraphBlocks(flush_paragraphs(
                                 sentence_buffer, sentences_per_paragraph)))
                 /\ sentence_buffer' =
                        (IF ColonRemainder(s) # <<>>
                         THEN split_into_sentences(ColonRemainder(s))
                         ELSE <<>>)
            ELSE /\ current_heading' = current_heading
                 /\ sentence_buffer' = Append(sentence_buffer, s)
                 /\ out_blocks' = out_blocks

\* C1: each step of the sentence loop either opens a section (heading
\* detection on, a ":" in the sentence, and a trimmed prefix of at least 8
\* characters or at least 2 words): the buffer is flushed, the heading becomes
\* the trimmed prefix and the buffer holds the re-segmented remainder; or, in
\* every other case, leaves the heading and the output alone and appends the
\* whole sentence to the buffer.
C1_ColonRule == [][C1Step]_vars

\* a section was opened over a non-empty buffer, and its remainder buffered
C1_Witness ==
    /\ pc = "loop"
    /\ si >= 2
    /\ detect_headings
    /\ ColonRule(all_sentences[si])
    /\ current_heading = ColonPrefix(all_sentences[si])
    /\ out_blocks # <<>>
    /\ sentence_buffer # <<>>

\* the line a heading is rendered as
HeadingLine(h) == IF markdown_headings THEN Chars("## ") \o h ELSE Upper(h)

\* the step closes the open section: the next sentence opens a new one, or
\* the input has ended
ClosingStep ==
    /\ pc = "loop"
    /\ \/ pc' = "done"
       \/ /\ SentenceStep
          /\ detect_headings
          /\ ColonRule(all_sentences[si + 1])

C2Step ==
    (ClosingStep /\ current_heading # <<>>) =>
        /\ Len(out_blocks') > Len(out_blocks)
        /\ BeginsWith(out_blocks', out_blocks)
        /\ out_blocks'[Len(out_blocks) + 1] = HeadingLine(current_heading)

\* C2: every section opened by a detected heading emits its heading line
\* when it is closed (at the next detected heading or at the end of the
\* input), also when it holds no sentence.
C2_HeadingEmitted == [][C2Step]_vars

\* C3: flush_paragraphs(sentences, n) returns ceil(len/n) paragraphs; the
\* p-th is the single-space join of sentences (p-1)n+1 .. min(pn, len), so all
\* but the last hold n sentences and the last between 1 and n.
C3_Grouping ==
    pc = "flushed" =>
        LET k == Len(fp_sentences)
            count == (k + fp_n - 1) \div fp_n
        IN  /\ Len(fp_result) = count
            /\ \A p \in 1..count :
                   fp_result[p] =
                       Join(SubSeq(fp_sentences, (p - 1) * fp_n + 1,
                                   Min(p * fp_n, k)), <<" ">>)

\* 7 sentences in paragraphs of 3: sizes 3, 3, 1
C3_Witness ==
    /\ pc = "flushed"
    /\ Len(fp_sentences) = 7
    /\ fp_n = 3
    /\ Len(fp_result) = 3

\* the end-to-end scenario has run to its end
ModuleSampleDone ==
    /\ pc = "done"
    /\ pass = 1
    /\ srt_text = ModuleSample
    /\ detect_headings
    /\ ~markdown_headings
    /\ sentences_per_paragraph = 1

ModuleSampleOutput(underline) ==
    Chars("WELCOME TO MODULE 7\n") \o Underline(underline)
        \o Chars("\nIn this module we will cover X, Y, Z.\n")

\* a step that emits a heading with an underline
UnderlinedHeadingStep ==
    /\ pc = "loop"
    /\ pc' \in {"loop", "done"}
    /\ ~markdown_headings
    /\ current_heading # <<>>
    /\ Len(out_blocks') > Len(out_blocks)

C4Step ==
    /\ ModuleSampleDone' => final_text' = ModuleSampleOutput(19)
    /\ UnderlinedHeadingStep =>
           LET under == out_blocks'[Len(out_blocks) + 2]
           IN  /\ out_blocks'[Len(out_blocks) + 1] = Upper(current_heading)
               /\ Len(under) = Len(current_heading)
               /\ \A i \in 1..Len(under) : under[i] = "="

\* C4 (amended): the end-to-end scenario yields WELCOME TO MODULE 7, a line
\* of exactly 19 "=", then the paragraph; and every underline is as long as
\* its heading.
C4_ModuleSample == [][C4Step]_vars

C4_Witness == ModuleSampleDone /\ final_text # <<>>

\* C4 as claimed: the underline of the end-to-end scenario has 20 "="
C4_Original == ModuleSampleDone => final_text = ModuleSampleOutput(20)

\* C5: split_into_sentences keeps every "..." with the text around it (the
\* sentences, joined with single spaces, are the whitespace-normalized input)
\* and "Wait... really? Yes." gives "Wait... really?" and "Yes.".
C5_EllipsisKept ==
    pc \in {"loop", "done"} =>
        /\ Join(all_sentences, <<" ">>) = Strip(CollapseSpaces(joined_text))
        /\ joined_text = Chars("Wait... really? Yes.") =>
               all_sentences = <<Chars("Wait... really?"), Chars("Yes.")>>

\* HH:MM:SS,mmm
TimeShape(t) ==
    /\ Len(t) = 12
    /\ t[3] = ":"
    /\ t[6] = ":"
    /\ t[9] = ","
    /\ \A k \in {1, 2, 4, 5, 7, 8, 10, 11, 12} : t[k] \in Digits

\* the indices of s at which an HH:MM:SS,mmm starts
TimeStarts(s) == {i \in 1..(Len(s) - 11) : TimeShape(SubSeq(s, i, i + 11))}

\* s holds HH:MM:SS,mmm --> HH:MM:SS,mmm from index i to index j + 11
TimecodeRange(s, i, j) ==
    \E a \in (i + 12)..(j - 3) :
        /\ SubSeq(s, a, a + 2) = Chars("-->")
        /\ \A k \in ((i + 12)..(a - 1)) \cup ((a + 3)..(j - 1)) : IsSpace(s[k])

\* a timecode range occurs in s
HasTimecode(s) == \E i, j \in TimeStarts(s) : TimecodeRange(s, i, j)

\* a timecode range occurs in s with no letter, digit or "_" right before or
\* right after it
HasDelimitedTimecode(s) ==
    \E i, j \in TimeStarts(s) :
        /\ TimecodeRange(s, i, j)
        /\ (i = 1 \/ ~IsWordChar(s[i - 1]))
        /\ (j + 12 > Len(s) \/ ~IsWordChar(s[j + 12]))

\* C6 (amended): every line holding a timecode range that no letter, digit or
\* "_" touches is dropped by the line filter: no kept line holds one, and at
\* most the other lines are kept.
C6_TimecodeLinesDropped ==
    pc \in {"filtered", "loop", "done"} =>
        LET lines == SplitLines(srt_text)
        IN  /\ \A k \in 1..Len(merged_text) : ~HasDelimitedTimecode(merged_text[k])
            /\ Len(merged_text) <=
                   Cardinality({k \in 1..Len(lines) : ~HasDelimitedTimecode(lines[k])})

\* a timecode line was dropped and another line kept
C6_Witness ==
    /\ pc = "filtered"
    /\ merged_text # <<>>
    /\ \E k \in 1..Len(SplitLines(srt_text)) :
           HasDelimitedTimecode(SplitLines(srt_text)[k])

\* C6 as claimed: whatever is around the timecode, none is left in the output
C6_Original == (pc = "done" /\ pass = 1) => ~HasTimecode(final_text)

\* C7: converting the output of a conversion again gives the same text.
C7_Idempotent == (pc = "done" /\ pass = 2) => final_text = first_text

\* the paragraphs among the emitted blocks: the blocks a blank line follows
RECURSIVE EmittedParagraphs(_, _)
EmittedParagraphs(out, i) ==
    IF i >= Len(out) THEN <<>>
    ELSE (IF out[i] # <<>> /\ out[i + 1] = <<>> THEN <<out[i]>> ELSE <<>>)
             \o EmittedParagraphs(out, i + 1)

C10State ==
    pc \in {"loop", "done"} =>
        /\ Join(EmittedParagraphs(out_blocks, 1) \o sentence_buffer, <<" ">>)
               = Join(appended, <<" ">>)
        /\ pc = "done" => sentence_buffer = <<>>

C10Step ==
    /\ C10State'
    /\ (pc = "loop" /\ pc' \in {"loop", "done"} /\ sentence_buffer = <<>>)
           => out_blocks' = out_blocks

\* C10: the sentences appended to the section buffer are, in order and once
\* each, the sentences of the emitted paragraphs followed by those still
\* buffered; at the end the buffer is empty; a push on an empty buffer emits
\* nothing.
C10_NothingLost == [][C10Step]_vars

\* two sections were flushed, the second under a heading
C10_Witness ==
    /\ pc = "done"
    /\ current_heading # <<>>
    /\ Len(appended) >= 2
    /\ Len(EmittedParagraphs(out_blocks, 1)) >= 2

BulletGlyphs == {"@", "^", "-", "*"}

\* the classifier has just classified `line`
Classified == pc = "classify" /\ li > 0 /\ mi = 0

\* C8: a line that starts with a bullet glyph is tagged sub_heading, its
\* leading glyph stripped, when it ends with ":", and list when it does not
\* and is no heading.
C8_Bullets ==
    (Classified /\ line # <<>> /\ line[1] \in BulletGlyphs) =>
        /\ cleaned_lines # <<>>
        /\ LET entry == cleaned_lines[Len(cleaned_lines)]
           IN  IF line[Len(line)] = ":"
               THEN /\ entry[1] = "sub_heading"
                    /\ EndsWith(line, entry[2])
                    /\ entry[2][1] \notin BulletGlyphs
               ELSE HasModule(line) \/ entry[1] = "list"

\* digits, optional ".digits" groups, then whitespace and text
NumberedOutline(s) ==
    \E k \in 2..(Len(s) - 1) :
        /\ IsSpace(s[k])
        /\ \E m \in (k + 1)..Len(s) : ~IsSpace(s[m])
        /\ \A j \in 1..(k - 1) : s[j] \in Digits \cup {"."}
        /\ s[1] \in Digits
        /\ s[k - 1] \in Digits
        /\ \A j \in 1..(k - 2) : ~(s[j] = "." /\ s[j + 1] = ".")

\* the stripped lines of the input that are numbered-outline lines
RECURSIVE NumberedLines(_)
NumberedLines(lines) ==
    IF lines = <<>> THEN <<>>
    ELSE (IF NumberedOutline(Strip(lines[1]))
          THEN <<<<"main_heading", Strip(lines[1])>>>> ELSE <<>>)
             \o NumberedLines(Tail(lines))

IsNumberedHeading(entry) == entry[1] = "main_heading" /\ NumberedOutline(entry[2])

\* C9: a numbered-outline line is tagged main_heading with its own text,
\* whether or not it ends with ":" and whatever lines stand before and after
\* it; the result holds exactly these headings for the numbered lines.
C9_NumberedFirst ==
    /\ (Classified /\ NumberedOutline(line)) =>
           /\ cleaned_lines # <<>>
           /\ cleaned_lines[Len(cleaned_lines)] = <<"main_heading", line>>
    /\ pc = "old_done" =>
           SelectSeq(merged, IsNumberedHeading) = NumberedLines(SplitLines(srt_text))

\* a numbered line that ends with ":" was classified after another line
C9_Witness ==
    /\ Classified
    /\ li >= 2
    /\ NumberedOutline(line)
    /\ line[Len(line)] = ":"
    /\ cleaned_lines[Len(cleaned_lines)] = <<"main_heading", line>>

====
